---- MODULE Spec2Model ----
(***************************************************************************)
(* Model of the tabular employee extractor of components/ChatInterface.tsx *)
(* (extremeNormalize, TARGET_HEADERS, processWorkbookRobustly,             *)
(* extractEmployeesFromExcel).                                             *)
(*                                                                         *)
(* A JavaScript string is a sequence of characters; a character is a TLA+  *)
(* string naming it.  ASCII characters name themselves.  The others:       *)
(*   "FW_SP" U+3000 full-width space   "FW_I" "FW_D" full-width I, D       *)
(*   "tan" 担  "tou" 当  "sha" 者  "KO" コ  "CHO" ー  "DO" ド  "TO" ト       *)
(*   "hKO" ｺ  "hCHO" ｰ  "hTO" ﾄ  "hDAKU" ﾞ  (half-width katakana)           *)
(*   "DAKU" U+3099 combining voiced sound mark                             *)
(*   "sya" 社  "in" 員  "ban" 番  "gou" 号  "shi" 氏  "mei" 名  "mae" 前     *)
(*   "juu" 従  "gyou" 業  "syo" 所  "zoku" 属  "bu" 部  "sho" 署  "ka" 課    *)
(*   "GU" グ  "RU" ル  "PU" プ  "yaku" 役  "shoku" 職  "koyo" 雇  "you" 用   *)
(*   "ku" 区  "bun" 分  "wari" 割  "shu" 種  "kei" 形  "tai" 態             *)
(*   "fu" 不  "akira" 明  "ichi" 一  "han" 般  "kou" 項  "moku" 目          *)
(*   "ta" 田  "naka" 中  "ei" 営  "chou" 長                                *)
(*                                                                         *)
(* A cell of the grid returned by XLSX.utils.sheet_to_json is a record     *)
(* [t, v]: t = "s" a string with characters v, t = "n" a number whose      *)
(* decimal text is v, t = "u" undefined (an index outside the row).        *)
(***************************************************************************)
EXTENDS Integers, Sequences, FiniteSets, TLC

-----------------------------------------------------------------------------
(* JavaScript values and string primitives *)

Str(s) == [t |-> "s", v |-> s]
Num(s) == [t |-> "n", v |-> s]
Undefined == [t |-> "u", v |-> <<>>]

\* Characters matched by \s and removed by String.prototype.trim.
WhiteSpace == {" ", "\t", "\n", "\r", "FW_SP"}

\* row[idx] of a JavaScript array, idx counted from 0; undefined outside it.
At(row, idx) == IF idx >= 0 /\ idx < Len(row) THEN row[idx + 1] ELSE Undefined

\* JavaScript truthiness of a cell: undefined, '' and the number 0 are falsy.
Truthy(c) ==
    CASE c.t = "u" -> FALSE
      [] c.t = "s" -> c.v # <<>>
      [] OTHER     -> c.v # <<"0">>

\* a || b
OrElse(a, b) == IF Truthy(a) THEN a ELSE b

\* String(c) for a defined cell.
String(c) == c.v

RECURSIVE TrimStart(_)
TrimStart(s) ==
    IF s # <<>> /\ Head(s) \in WhiteSpace THEN TrimStart(Tail(s)) ELSE s

RECURSIVE TrimEnd(_)
TrimEnd(s) ==
    IF s # <<>> /\ s[Len(s)] \in WhiteSpace
    THEN TrimEnd(SubSeq(s, 1, Len(s) - 1))
    ELSE s

\* s.trim()
Trim(s) == TrimEnd(TrimStart(s))

\* s.includes(k)
Includes(s, k) ==
    \E i \in 0..(Len(s) - Len(k)) : SubSeq(s, i + 1, i + Len(k)) = k

\* s.includes(ch) for a single character
HasChar(s, ch) == \E i \in 1..Len(s) : s[i] = ch

\* s.split(ch) for a single-character separator
RECURSIVE SplitFrom(_, _, _)
SplitFrom(s, ch, cur) ==
    IF s = <<>> THEN <<cur>>
    ELSE IF Head(s) = ch THEN <<cur>> \o SplitFrom(Tail(s), ch, <<>>)
    ELSE SplitFrom(Tail(s), ch, Append(cur, Head(s)))

Split(s, ch) == SplitFrom(s, ch, <<>>)

\* parts.join(sep)
RECURSIVE Join(_, _)
Join(parts, sep) ==
    IF parts = <<>> THEN <<>>
    ELSE IF Len(parts) = 1 THEN parts[1]
    ELSE parts[1] \o sep \o Join(Tail(parts), sep)

Digit(n) == <<"0", "1", "2", "3", "4", "5", "6", "7", "8", "9">>[n + 1]

\* String(i) for an integer i >= 0
RECURSIVE Digits(_)
Digits(n) == IF n < 10 THEN <<Digit(n)>> ELSE Append(Digits(n \div 10), Digit(n % 10))

-----------------------------------------------------------------------------
(* extremeNormalize *)

\* Compatibility mapping of one character under NFKC.
CompatChar(ch) ==
    CASE ch = "FW_SP" -> " "
      [] ch = "FW_I"  -> "I"
      [] ch = "FW_D"  -> "D"
      [] ch = "hKO"   -> "KO"
      [] ch = "hCHO"  -> "CHO"
      [] ch = "hTO"   -> "TO"
      [] ch = "hDAKU" -> "DAKU"
      [] OTHER        -> ch

\* Canonical composition: TO followed by the voiced sound mark is DO.
RECURSIVE Compose(_)
Compose(s) ==
    IF Len(s) < 2 THEN s
    ELSE IF s[1] = "TO" /\ s[2] = "DAKU" THEN <<"DO">> \o Compose(Tail(Tail(s)))
    ELSE <<s[1]>> \o Compose(Tail(s))

\* s.normalize('NFKC')
NFKC(s) == Compose([i \in 1..Len(s) |-> CompatChar(s[i])])

\* s.replace(/[\s\t\n\r]/g, '')
StripWhiteSpace(s) == SelectSeq(s, LAMBDA ch : ch \notin WhiteSpace)

LowerChar(ch) ==
    CASE ch = "I" -> "i"
      [] ch = "D" -> "d"
      [] ch = "C" -> "c"
      [] ch = "N" -> "n"
      [] ch = "O" -> "o"
      [] ch = "S" -> "s"
      [] ch = "V" -> "v"
      [] OTHER    -> ch

\* s.toLowerCase()
ToLowerCase(s) == [i \in 1..Len(s) |-> LowerChar(s[i])]

extremeNormalize(val) ==
    IF val.t = "u" THEN <<>>
    ELSE ToLowerCase(StripWhiteSpace(NFKC(Trim(String(val)))))

-----------------------------------------------------------------------------
(* TARGET_HEADERS *)

TARGET_HEADERS ==
    [CODE |-> << <<"tan", "tou", "sha", "KO", "CHO", "DO">>,
                 <<"tan", "tou", "sha", "hKO", "hCHO", "hTO", "hDAKU">>,
                 <<"KO", "CHO", "DO">>,
                 <<"sya", "in", "ban", "gou">>,
                 <<"sya", "in", "C", "D">>,
                 <<"C", "D">>,
                 <<"I", "D">>,
                 <<"N", "O">> >>,
     NAME |-> << <<"tan", "tou", "sha", "mei">>,
                 <<"shi", "mei">>,
                 <<"mei", "mae">>,
                 <<"juu", "gyou", "in", "mei">> >>,
     DEPT |-> << <<"syo", "zoku", "mei">>,
                 <<"bu", "sho">>,
                 <<"syo", "zoku">>,
                 <<"bu", "sho", "mei">>,
                 <<"ka">>,
                 <<"GU", "RU", "CHO", "PU">> >>,
     ROLE |-> << <<"yaku", "shoku">>,
                 <<"koyo", "you">>,
                 <<"ku", "bun">>,
                 <<"yaku", "wari">>,
                 <<"shoku", "shu">>,
                 <<"kei", "tai">> >>]


-----------------------------------------------------------------------------
(* processWorkbookRobustly *)

\* The test passing as soon as one row has at most one cell.
looksLikeJoined_Some(rows) == \E i \in 1..Len(rows) : Len(rows[i]) <= 1

\* rows.every(r => r.length <= 1)
looksLikeJoined(rows) == \A i \in 1..Len(rows) : Len(rows[i]) <= 1

StrCells(parts) == [i \in 1..Len(parts) |-> Str(parts[i])]

\* The callback testing the comma before the tab.
RecoverRow_CommaFirst(r) ==
    LET cell == String(OrElse(At(r, 0), Str(<<>>)))
    IN  IF HasChar(cell, ",") THEN StrCells(Split(cell, ","))
        ELSE IF HasChar(cell, "\t") THEN StrCells(Split(cell, "\t"))
        ELSE r

\* The callback of rows.map in the delimiter rescue.
RecoverRow(r) ==
    LET cell == String(OrElse(At(r, 0), Str(<<>>)))
    IN  IF HasChar(cell, "\t") THEN StrCells(Split(cell, "\t"))
        ELSE IF HasChar(cell, ",") THEN StrCells(Split(cell, ","))
        ELSE r

\* The grid after the delimiter rescue.
Recover(sheet) ==
    IF looksLikeJoined(sheet)
    THEN [i \in 1..Len(sheet) |-> RecoverRow(sheet[i])]
    ELSE sheet

Keywords ==
    UNION {{TARGET_HEADERS[f][j] : j \in 1..Len(TARGET_HEADERS[f])} :
              f \in DOMAIN TARGET_HEADERS}

\* extremeNormalize(k) of every keyword k, tabulated.
nkOf == [k \in Keywords |-> extremeNormalize(Str(k))]

\* The match taken in both directions of containment.
isMatch_EitherWay(normalized, list) ==
    \E j \in 1..Len(list) :
        LET nk == nkOf[list[j]]
        IN  normalized = nk \/ Includes(normalized, nk) \/ Includes(nk, normalized)

isMatch(normalized, list) ==
    \E j \in 1..Len(list) :
        LET nk == nkOf[list[j]]
        IN  normalized = nk \/ Includes(normalized, nk)

EmptyMapping == [code |-> -1, name |-> -1, dept |-> -1, role |-> -1]

\* The callback with four separate tests in place of the else-if chain: a
\* cell fills every unset field whose list it matches.
ScanCell_NoElse(st, cell, idx) ==
    LET normalized == extremeNormalize(cell)
        hit(s, f) == [currentMapping |-> [s.currentMapping EXCEPT ![f] = idx],
                      matchCount |-> s.matchCount + 1]
        s1 == IF st.currentMapping.code = -1
                  /\ isMatch(normalized, TARGET_HEADERS.CODE)
              THEN hit(st, "code") ELSE st
        s2 == IF s1.currentMapping.name = -1
                  /\ isMatch(normalized, TARGET_HEADERS.NAME)
                  /\ ~HasChar(normalized, "@")
              THEN hit(s1, "name") ELSE s1
        s3 == IF s2.currentMapping.dept = -1
                  /\ isMatch(normalized, TARGET_HEADERS.DEPT)
              THEN hit(s2, "dept") ELSE s2
    IN  IF normalized = <<>> THEN st
        ELSE IF s3.currentMapping.role = -1
                /\ isMatch(normalized, TARGET_HEADERS.ROLE)
             THEN hit(s3, "role") ELSE s3

\* The callback testing the NAME list before the CODE list.
ScanCell_NameFirst(st, cell, idx) ==
    LET normalized == extremeNormalize(cell)
        cm == st.currentMapping
        hit(f) == [currentMapping |-> [cm EXCEPT ![f] = idx],
                   matchCount |-> st.matchCount + 1]
    IN  IF normalized = <<>> THEN st
        ELSE IF cm.name = -1 /\ isMatch(normalized, TARGET_HEADERS.NAME)
             THEN IF ~HasChar(normalized, "@") THEN hit("name") ELSE st
        ELSE IF cm.code = -1 /\ isMatch(normalized, TARGET_HEADERS.CODE)
             THEN hit("code")
        ELSE IF cm.dept = -1 /\ isMatch(normalized, TARGET_HEADERS.DEPT)
             THEN hit("dept")
        ELSE IF cm.role = -1 /\ isMatch(normalized, TARGET_HEADERS.ROLE)
             THEN hit("role")
        ELSE st

\* The callback without the tests for a slot being unset: the last match wins.
ScanCell_Overwrite(st, cell, idx) ==
    LET normalized == extremeNormalize(cell)
        cm == st.currentMapping
        hit(f) == [currentMapping |-> [cm EXCEPT ![f] = idx],
                   matchCount |-> st.matchCount + 1]
    IN  IF normalized = <<>> THEN st
        ELSE IF isMatch(normalized, TARGET_HEADERS.CODE)
             THEN hit("code")
        ELSE IF isMatch(normalized, TARGET_HEADERS.NAME)
             THEN IF ~HasChar(normalized, "@") THEN hit("name") ELSE st
        ELSE IF isMatch(normalized, TARGET_HEADERS.DEPT)
             THEN hit("dept")
        ELSE IF isMatch(normalized, TARGET_HEADERS.ROLE)
             THEN hit("role")
        ELSE st

\* The callback taking a NAME match as the name column whatever it contains.
ScanCell_AtAllowed(st, cell, idx) ==
    LET normalized == extremeNormalize(cell)
        cm == st.currentMapping
        hit(f) == [currentMapping |-> [cm EXCEPT ![f] = idx],
                   matchCount |-> st.matchCount + 1]
    IN  IF normalized = <<>> THEN st
        ELSE IF cm.code = -1 /\ isMatch(normalized, TARGET_HEADERS.CODE)
             THEN hit("code")
        ELSE IF cm.name = -1 /\ isMatch(normalized, TARGET_HEADERS.NAME)
             THEN hit("name")
        ELSE IF cm.dept = -1 /\ isMatch(normalized, TARGET_HEADERS.DEPT)
             THEN hit("dept")
        ELSE IF cm.role = -1 /\ isMatch(normalized, TARGET_HEADERS.ROLE)
             THEN hit("role")
        ELSE st

\* The callback of row.forEach in header detection: st holds currentMapping
\* and matchCount.
ScanCell(st, cell, idx) ==
    LET normalized == extremeNormalize(cell)
        cm == st.currentMapping
        hit(f) == [currentMapping |-> [cm EXCEPT ![f] = idx],
                   matchCount |-> st.matchCount + 1]
    IN  IF normalized = <<>> THEN st
        ELSE IF cm.code = -1 /\ isMatch(normalized, TARGET_HEADERS.CODE)
             THEN hit("code")
        ELSE IF cm.name = -1 /\ isMatch(normalized, TARGET_HEADERS.NAME)
             THEN IF ~HasChar(normalized, "@") THEN hit("name") ELSE st
        ELSE IF cm.dept = -1 /\ isMatch(normalized, TARGET_HEADERS.DEPT)
             THEN hit("dept")
        ELSE IF cm.role = -1 /\ isMatch(normalized, TARGET_HEADERS.ROLE)
             THEN hit("role")
        ELSE st

\* The scan recording one-based column numbers.
RECURSIVE ScanFrom_OneBased(_, _, _)
ScanFrom_OneBased(row, idx, st) ==
    IF idx >= Len(row) THEN st
    ELSE ScanFrom_OneBased(row, idx + 1, ScanCell(st, At(row, idx), idx + 1))

RECURSIVE ScanFrom(_, _, _)
ScanFrom(row, idx, st) ==
    IF idx >= Len(row) THEN st
    ELSE CHOOSE end \in {ScanFrom(row, idx + 1, next) :
                             next \in {ScanCell(st, At(row, idx), idx)}} : TRUE

\* currentMapping and matchCount after row.forEach over one candidate row.
ScanRow(row) ==
    ScanFrom(row, 0, [currentMapping |-> EmptyMapping, matchCount |-> 0])

\* Number of leading rows examined by header detection.
ScanLimit == 50

Min(a, b) == IF a < b THEN a ELSE b

\* The loop without its break: the last row with two matches wins.
RECURSIVE HeaderLoop_NoBreak(_, _)
HeaderLoop_NoBreak(rows, i) ==
    IF i >= Min(Len(rows), ScanLimit)
    THEN [headerIndex |-> -1, mapping |-> EmptyMapping]
    ELSE LET later == HeaderLoop_NoBreak(rows, i + 1)
             st    == ScanRow(rows[i + 1])
         IN  IF later.headerIndex # -1 THEN later
             ELSE IF Len(rows[i + 1]) >= 2 /\ st.matchCount >= 2
             THEN [headerIndex |-> i, mapping |-> st.currentMapping]
             ELSE later

\* The loop running over every row of the grid.
RECURSIVE HeaderLoop_NoLimit(_, _)
HeaderLoop_NoLimit(rows, i) ==
    IF i >= Len(rows)
    THEN [headerIndex |-> -1, mapping |-> EmptyMapping]
    ELSE IF Len(rows[i + 1]) < 2 THEN HeaderLoop_NoLimit(rows, i + 1)
    ELSE LET st == ScanRow(rows[i + 1])
         IN  IF st.matchCount >= 2
             THEN [headerIndex |-> i, mapping |-> st.currentMapping]
             ELSE HeaderLoop_NoLimit(rows, i + 1)

\* The header detection loop from row i on.
RECURSIVE HeaderLoop(_, _)
HeaderLoop(rows, i) ==
    IF i >= Min(Len(rows), ScanLimit)
    THEN [headerIndex |-> -1, mapping |-> EmptyMapping]
    ELSE IF Len(rows[i + 1]) < 2 THEN HeaderLoop(rows, i + 1)
    ELSE LET st == ScanRow(rows[i + 1])
         IN  IF st.matchCount >= 2
             THEN [headerIndex |-> i, mapping |-> st.currentMapping]
             ELSE HeaderLoop(rows, i + 1)

\* The positional guess starting at the name.
FallbackMapping_NameFirst == [code |-> 1, name |-> 0, dept |-> 2, role |-> 3]

FallbackMapping == [code |-> 0, name |-> 1, dept |-> 2, role |-> 3]

\* headerIndex and mapping once the loop and the fallback have run.
LocateHeader(rows) ==
    LET found == HeaderLoop(rows, 0)
    IN  IF found.headerIndex = -1
        THEN [headerIndex |-> 0, mapping |-> FallbackMapping]
        ELSE found

DEPT_UNKNOWN == <<"bu", "sho", "fu", "akira">>
GENERAL == <<"ichi", "han">>
ITEM == <<"kou", "moku">>

nameValOf(row, mapping) ==
    Trim(String(OrElse(At(row, mapping.name), Str(<<>>))))

codeOf(row, mapping, i) ==
    LET c == Trim(String(OrElse(At(row, mapping.code), Str(<<>>))))
    IN  IF c # <<>> THEN c ELSE Digits(i)

departmentOf(row, mapping) ==
    Trim(String(OrElse(At(row, mapping.dept), Str(DEPT_UNKNOWN))))

roleOf(row, mapping) ==
    Trim(String(OrElse(At(row, mapping.role), Str(GENERAL))))

\* The callback of headerRow.forEach: the pair pushed for column idx, if any.
hNameOf(headerRow, idx) ==
    Trim(String(OrElse(At(headerRow, idx), Str(ITEM \o Digits(idx)))))

InfoPart(headerRow, row, idx) ==
    LET val   == Trim(String(OrElse(At(row, idx), Str(<<>>))))
        hName == hNameOf(headerRow, idx)
    IN  IF val # <<>> THEN << hName \o <<":", " ">> \o val >> ELSE <<>>

RECURSIVE InfoPartsFrom(_, _, _)
InfoPartsFrom(headerRow, row, idx) ==
    IF idx >= Len(headerRow) THEN <<>>
    ELSE InfoPart(headerRow, row, idx) \o InfoPartsFrom(headerRow, row, idx + 1)

rawInfoOf(headerRow, row) == Join(InfoPartsFrom(headerRow, row, 0), <<",", " ">>)

\* The test that makes the extraction loop skip row i.
Skipped(row, mapping) ==
    \/ Len(row) = 0
    \/ nameValOf(row, mapping) = <<>>
    \/ HasChar(nameValOf(row, mapping), "@")

\* One iteration of the extraction loop: the records pushed for row i.
ExtractRow(rows, headerRow, mapping, i) ==
    LET row == rows[i + 1]
    IN  IF Skipped(row, mapping) THEN <<>>
        ELSE << [code       |-> codeOf(row, mapping, i),
                 name       |-> nameValOf(row, mapping),
                 department |-> departmentOf(row, mapping),
                 role       |-> roleOf(row, mapping),
                 rawInfo    |-> rawInfoOf(headerRow, row)] >>

\* The extraction loop from row i on.
RECURSIVE ExtractFrom(_, _, _, _)
ExtractFrom(rows, headerRow, mapping, i) ==
    IF i >= Len(rows) THEN <<>>
    ELSE ExtractRow(rows, headerRow, mapping, i)
         \o ExtractFrom(rows, headerRow, mapping, i + 1)

\* The locals of one call: the grid after the rescue, the header row index,
\* the mapping and the returned records.  rows and hdr are bound as elements
\* of one-element sets: each is computed once, like the locals of the code.
processWorkbookRobustly(sheet) ==
    IF Len(sheet) = 0
    THEN [rows |-> <<>>, headerIndex |-> -1, mapping |-> EmptyMapping,
          results |-> <<>>]
    ELSE CHOOSE run \in
             UNION {{[rows |-> rows, headerIndex |-> hdr.headerIndex,
                      mapping |-> hdr.mapping,
                      results |-> ExtractFrom(rows, rows[hdr.headerIndex + 1],
                                              hdr.mapping, hdr.headerIndex + 1)]
                     : hdr \in {LocateHeader(rows)}}
                    : rows \in {Recover(sheet)}} : TRUE

-----------------------------------------------------------------------------
(* Input space: the files handed to extractEmployeesFromExcel *)

MaxCols == 2
MaxDataRows == 2
MaxJoinedRows == 2

\* All rows of at most n cells drawn from cells.
RowsUpTo(cells, n) == UNION {[1..k -> cells] : k \in 0..n}

cID      == Str(<<"I", "D">>)
cName    == Str(<<"shi", "mei">>)
cDept    == Str(<<"bu", "sho">>)
cRole    == Str(<<"yaku", "shoku">>)
cNameAt  == Str(<<"shi", "mei", "@">>)
cIDName  == Str(<<"I", "D", "shi", "mei">>)
cNameDeptAt == Str(<<"shi", "mei", "bu", "sho", "@">>)
cMei     == Str(<<"mei">>)
cEmpty   == Str(<<>>)
cBlank   == Str(<<" ">>)
cX       == Str(<<"x">>)
cOne     == Str(<<"1">>)
cOnePad  == Str(<<" ", "1">>)
cZero    == Num(<<"0">>)
cSeven   == Num(<<"7">>)
cTanaka  == Str(<<"ta", "naka">>)
cMail    == Str(<<"a", "@", "b">>)
cSales   == Str(<<"ei", "gyou">>)
cChief   == Str(<<"ka", "chou">>)

HeaderCells == {cID, cName, cDept, cRole, cNameAt, cIDName, cNameDeptAt, cMei,
                cEmpty, cX}
PairCells   == {cID, cName, cDept, cNameAt, cIDName, cMei, cX}

StdHeader == <<cID, cName, cDept, cRole>>
StdData   == <<cOne, cTanaka, cSales, cChief>>

\* One candidate header row, alone or above a data row.
HeaderGrids ==
    {<<h>> \o t : h \in RowsUpTo(HeaderCells, MaxCols), t \in {<<>>, <<StdData>>}}

\* Two candidate header rows above a data row.
PairGrids ==
    {<<h1, h2, StdData>> : h1 \in [1..2 -> PairCells], h2 \in [1..2 -> PairCells]}
    \cup {<<h1, StdHeader, StdData>> : h1 \in [1..2 -> PairCells]}

\* n rows of two empty cells, as a preamble above the table.
Padding(n) == [i \in 1..n |-> <<cEmpty, cEmpty>>]

PaddedGrids ==
    {Padding(n) \o g : n \in {ScanLimit - 1, ScanLimit, ScanLimit + 1},
                       g \in {<<StdHeader, StdData>>, <<<<cX, cTanaka>>, StdData>>}}

DataHeaders ==
    {StdHeader, <<cX, cEmpty, cBlank, cZero>>, <<cName, cDept>>, <<cX>>,
     <<cBlank, cX>>}

CodeCells == {cEmpty, cOne, cOnePad, cZero}
NameCells == {cEmpty, cTanaka, cMail, cZero}
DeptCells == {cEmpty, cBlank, cSales, cZero}
RoleCells == {cEmpty, cBlank, cChief}

DataRows ==
    {<<>>}
    \cup {<<c>> : c \in CodeCells}
    \cup {<<c, n>> : c \in CodeCells, n \in NameCells}
    \cup {<<c, n, d>> : c \in CodeCells, n \in NameCells, d \in DeptCells}
    \cup {<<c, n, d, r>> : c \in CodeCells, n \in NameCells, d \in DeptCells,
                           r \in RoleCells}

\* One data row of any shape under each kind of header.
DataGrids == {<<h, d>> : h \in DataHeaders, d \in DataRows}

SomeDataRows ==
    {StdData, <<>>, <<cOne, cEmpty, cSales>>, <<cEmpty, cMail>>,
     <<cZero, cSeven, cBlank, cZero>>}

\* Several data rows, valid and malformed interleaved.
ManyRowGrids ==
    {<<h>> \o ds : h \in {StdHeader, <<cX, cX>>},
                   ds \in RowsUpTo(SomeDataRows, MaxDataRows)}
    \cup {<<StdHeader, StdData, <<cOne, cMail>>, <<>>, <<cEmpty, cTanaka, cSales>>,
            <<cOne, cEmpty>>, <<cZero, cSeven>> >>}

JoinedCells ==
    {Str(<<"I", "D", ",", "shi", "mei">>),
     Str(<<"I", "D", "\t", "shi", "mei">>),
     Str(<<"1", ",", "ta", "naka">>),
     Str(<<"1", "\t", "ta", "naka", ",", "ei", "gyou">>),
     cTanaka, cEmpty, cZero, cSeven}

\* Grids whose rows all have at most one cell.
JoinedGrids ==
    RowsUpTo({<<>>} \cup {<<c>> : c \in JoinedCells}, MaxJoinedRows)

\* A row of two cells above a row of one, with delimiters in their cells.
MixedGrids == {<< <<a, cX>>, <<b>> >> : a, b \in JoinedCells}

\* Spellings of ID and of the half-width code synonym that differ by
\* whitespace, letter case and width.
SpellingCells ==
    {cID,
     Str(<<"FW_SP", "i", "d">>),
     Str(<<"FW_I", "FW_D", " ">>),
     Str(<<"I", "\n", "D">>),
     Str(<<"KO", "CHO", "DO">>),
     Str(<<"hKO", "hCHO", "hTO", "hDAKU">>),
     Str(<<"hKO", "hCHO", "hTO", " ", "hDAKU">>),
     Str(<<"KO", "\t", "CHO", "TO", "FW_SP", "DAKU">>)}

\* One candidate row of two spellings.
SpellingGrids == {<< <<a, b>> >> : a, b \in SpellingCells}

Grids == HeaderGrids \cup PairGrids \cup PaddedGrids \cup DataGrids
         \cup ManyRowGrids \cup JoinedGrids \cup MixedGrids
         \cup SpellingGrids

\* What XLSX.read followed by sheet_to_json gives for a file under one
\* codepage: an exception, or the grid of the first sheet.
Thrown == [ok |-> FALSE, sheet |-> <<>>]
Decoded(g) == [ok |-> TRUE, sheet |-> g]

CSV_LOWER == <<"a", ".", "c", "s", "v">>
CSV_UPPER == <<"a", ".", "C", "S", "V">>
XLSX_NAME == <<"a", ".", "x", "l", "s", "x">>
FileNames == {CSV_LOWER, CSV_UPPER, XLSX_NAME}

\* A file: its name and its decoding under codepage 932 and by default.
File(n, a, b) == [name |-> n, cp932 |-> a, cpDefault |-> b]

\* Each grid as the default decoding of a file whose codepage 932 decoding
\* fails: read first when the file is not .csv, on the retry when it is.
FilesOver(grids) ==
    {File(n, Thrown, Decoded(g)) : n \in {CSV_LOWER, XLSX_NAME}, g \in grids}

OtherData == <<cSeven, cMail, cSales>>

SomeOutcomes ==
    {Thrown, Decoded(<<>>), Decoded(<<StdHeader>>),
     Decoded(<<StdHeader, StdData>>), Decoded(<<StdHeader, OtherData, StdData>>),
     Decoded(<<StdHeader, <<cOne, cTanaka>> >>)}

\* Every name with every pair of decodings out of a few.
FilesOfOutcomes ==
    {File(n, a, b) : n \in FileNames, a \in SomeOutcomes, b \in SomeOutcomes}

Files == FilesOver(Grids) \cup FilesOfOutcomes

-----------------------------------------------------------------------------
(* State of the other components, which a call of the extractor leaves alone *)

VARIABLES
    messages,     \* ChatInterface: the messages state, in display order
    isLoading,    \* ChatInterface: the isLoading state
    sends,        \* ChatInterface: the handleSend calls, in order of start
    accessToken,  \* GoogleDriveService.accessToken
    tokenClient,  \* GoogleDriveService.tokenClient: 0 for null, or a client
    callbacks,    \* per token client created, whose callback it holds
    tokenRequests,\* the clients of the requestAccessToken calls not answered
    delivered,    \* a token callback has delivered an access token
    requests,     \* the Drive requests issued so far, in order
    calls,        \* the calls of saveFiles and loadFiles so far, in order
    driveData,    \* the data file on Drive
    ruleFiles,    \* App: the files state
    tasks,        \* the running autoSync effect and AdminDashboard handler
    opsLeft       \* AdminDashboard actions still to come

chatVars == <<messages, isLoading, sends>>
cloudVars == <<accessToken, tokenClient, callbacks, tokenRequests, delivered,
               requests, calls, driveData, ruleFiles, tasks, opsLeft>>

-----------------------------------------------------------------------------
(* extractEmployeesFromExcel *)

VARIABLES
    pc,           \* position of the call: idle, reading, read_failed,
                  \* first_done, retried, settled
    file,         \* the File argument
    isCsv,        \* file.name.toLowerCase().endsWith('.csv')
    attempts,     \* the tryRead calls so far, in order: codepage and result
    threw,        \* whether the last tryRead caught an exception
    sheet,        \* grid decoded by the last tryRead
    rows,         \* locals of the last processWorkbookRobustly call
    headerIndex,
    mapping,
    employees,    \* value returned by the last tryRead
    promise,      \* pending, resolved or rejected
    resolved,     \* records passed to resolve
    rejected      \* message passed to reject

vars == <<pc, file, isCsv, attempts, threw, sheet, rows, headerIndex, mapping,
          employees, promise, resolved, rejected>>

NO_EMPLOYEES == "NO_EMPLOYEE_DATA: check the header labels or the delimiter"
PARSE_FAILED == "PARSE_FAILED"
NONE == "none"

\* s.endsWith(suffix)
EndsWith(s, suffix) ==
    Len(s) >= Len(suffix)
    /\ SubSeq(s, Len(s) - Len(suffix) + 1, Len(s)) = suffix

isCsvName(name) == EndsWith(ToLowerCase(name), <<".", "c", "s", "v">>)

InitOver(files) ==
    /\ file \in files
    /\ pc = "idle"
    /\ isCsv = FALSE
    /\ attempts = <<>>
    /\ threw = FALSE
    /\ sheet = <<>>
    /\ rows = <<>>
    /\ headerIndex = -1
    /\ mapping = EmptyMapping
    /\ employees = <<>>
    /\ promise = "pending"
    /\ resolved = <<>>
    /\ rejected = NONE

\* The promise executor up to reader.readAsArrayBuffer(file).
Call ==
    /\ pc = "idle"
    /\ pc' = "reading"
    /\ isCsv' = isCsvName(file.name)
    /\ UNCHANGED <<file, attempts, threw, sheet, rows, headerIndex, mapping,
                   employees, promise, resolved, rejected>>
    /\ UNCHANGED <<chatVars, cloudVars>>

\* The read fails: the reader has no onerror handler.
ReaderError ==
    /\ pc = "reading"
    /\ pc' = "read_failed"
    /\ UNCHANGED <<file, isCsv, attempts, threw, sheet, rows, headerIndex,
                   mapping, employees, promise, resolved, rejected>>
    /\ UNCHANGED <<chatVars, cloudVars>>

\* tryRead(cp): the next value of the variables it sets.
tryRead(cp) ==
    LET out == file[cp]
        run == processWorkbookRobustly(out.sheet)
    IN  /\ attempts' = Append(attempts,
                               [cp |-> cp,
                                employees |-> IF out.ok THEN run.results
                                              ELSE <<>>])
        /\ IF out.ok
           THEN /\ threw' = FALSE
                /\ sheet' = out.sheet
                /\ rows' = run.rows
                /\ headerIndex' = run.headerIndex
                /\ mapping' = run.mapping
                /\ employees' = run.results
           ELSE /\ threw' = TRUE
                /\ sheet' = <<>>
                /\ rows' = <<>>
                /\ headerIndex' = -1
                /\ mapping' = EmptyMapping
                /\ employees' = <<>>

\* The codepage choice ignoring the extension.
FirstCodepage_Default(csv) == "cpDefault"

FirstCodepage(csv) == IF csv THEN "cp932" ELSE "cpDefault"

\* reader.onload up to the first tryRead.
FirstRead ==
    /\ pc = "reading"
    /\ pc' = "first_done"
    /\ tryRead(FirstCodepage(isCsv))
    /\ UNCHANGED <<file, isCsv, promise, resolved, rejected>>
    /\ UNCHANGED <<chatVars, cloudVars>>

\* The retry given up when the attempt before it threw.
NeedsRetry_UnlessThrew(emps) == Len(emps) = 0 /\ ~threw

NeedsRetry(emps) == Len(emps) = 0

\* The second attempt made whatever the first one returned.
Retry_Always ==
    /\ pc = "first_done"
    /\ pc' = "retried"
    /\ tryRead("cpDefault")
    /\ UNCHANGED <<file, isCsv, promise, resolved, rejected>>
    /\ UNCHANGED <<chatVars, cloudVars>>

\* if (employees.length === 0) employees = tryRead();
Retry ==
    /\ pc = "first_done"
    /\ NeedsRetry(employees)
    /\ pc' = "retried"
    /\ tryRead("cpDefault")
    /\ UNCHANGED <<file, isCsv, promise, resolved, rejected>>
    /\ UNCHANGED <<chatVars, cloudVars>>

AttemptsOver == pc = "retried" \/ (pc = "first_done" /\ ~NeedsRetry(employees))

\* resolve(employees) without the check for an empty list before it.
Resolve_Unchecked ==
    /\ pc = "retried" \/ (pc = "first_done" /\ Len(employees) # 0)
    /\ pc' = "settled"
    /\ promise' = "resolved"
    /\ resolved' = employees
    /\ UNCHANGED <<file, isCsv, attempts, threw, sheet, rows, headerIndex,
                   mapping, employees, rejected>>
    /\ UNCHANGED <<chatVars, cloudVars>>

\* resolve(employees)
Resolve ==
    /\ AttemptsOver
    /\ Len(employees) # 0
    /\ pc' = "settled"
    /\ promise' = "resolved"
    /\ resolved' = employees
    /\ UNCHANGED <<file, isCsv, attempts, threw, sheet, rows, headerIndex,
                   mapping, employees, rejected>>
    /\ UNCHANGED <<chatVars, cloudVars>>

\* throw new Error(...) caught by the handler's catch, which rejects.
Reject ==
    /\ AttemptsOver
    /\ Len(employees) = 0
    /\ pc' = "settled"
    /\ promise' = "rejected"
    /\ rejected' = NO_EMPLOYEES
    /\ UNCHANGED <<file, isCsv, attempts, threw, sheet, rows, headerIndex,
                   mapping, employees, resolved>>
    /\ UNCHANGED <<chatVars, cloudVars>>

Next == Call \/ ReaderError \/ FirstRead \/ Retry \/ Resolve \/ Reject

NULL == "null"

\* No data file on Drive.
NoDataFile == [exists |-> FALSE, content |-> <<>>]

\* ChatInterface not mounted.
ChatParked == messages = <<>> /\ isLoading = FALSE /\ sends = <<>>

\* No Drive service in use and no effect or handler to run.
CloudParked ==
    /\ accessToken = NULL
    /\ tokenClient = 0
    /\ callbacks = <<>>
    /\ tokenRequests = <<>>
    /\ delivered = FALSE
    /\ requests = <<>>
    /\ calls = <<>>
    /\ driveData = NoDataFile
    /\ ruleFiles = <<>>
    /\ tasks = <<>>
    /\ opsLeft = 0

\* No call of the extractor.
ExtractorParked == InitOver({File(XLSX_NAME, Thrown, Thrown)})

Init == InitOver(Files) /\ ChatParked /\ CloudParked

Spec == Init /\ [][Next]_vars

\* The calls on the files of FilesOfOutcomes, with every step that can be
\* taken eventually taken: the reader's events are delivered and the handler
\* runs to its end.
FairInit == InitOver(FilesOfOutcomes) /\ ChatParked /\ CloudParked

FairSpec == FairInit /\ [][Next]_vars /\ WF_vars(Next)

-----------------------------------------------------------------------------
(* ChatInterface: handleSend *)

MaxSends == 2
MaxChunks == 2

\* The welcome message the component starts with.
WELCOME == [id |-> 0, role |-> "assistant", content |-> <<"welcome">>]

ERROR_TEXT == <<"connection", "trouble">>

\* What the user can have typed when submitting.
Inputs == {<<"q">>, <<" ">>, <<>>}

\* The text of a chunk of the stream: chunk.text may be empty.
ChunkTexts == {<<>>, <<"a">>, <<"b">>}

\* generateId(): an id no message has; ids are numbered in order of creation.
generateId(taken) ==
    1 + (CHOOSE n \in taken \cup {0} : \A m \in taken \cup {0} : m <= n)

MessageIds(msgs) == {msgs[k].id : k \in 1..Len(msgs)}

\* The update replacing the content of the last message.
SetContent_Last(prev, id, content) ==
    [k \in 1..Len(prev) |->
        IF k = Len(prev) THEN [prev[k] EXCEPT !.content = content] ELSE prev[k]]

\* prev.map(m => m.id === assistantMsgId ? { ...m, content } : m)
SetContent(prev, id, content) ==
    [k \in 1..Len(prev) |->
        IF prev[k].id = id THEN [prev[k] EXCEPT !.content = content] ELSE prev[k]]

ChatInit ==
    /\ messages = <<WELCOME>>
    /\ isLoading = FALSE
    /\ sends = <<>>
    /\ ExtractorParked
    /\ CloudParked

\* handleSend up to the await of getGeminiResponseStream.
handleSend(input) ==
    /\ Len(sends) < MaxSends
    /\ Trim(input) # <<>>
    /\ ~isLoading
    /\ LET userMsgId == generateId(MessageIds(messages))
           assistantMsgId == generateId(MessageIds(messages) \cup {userMsgId})
       IN  /\ messages' = messages \o
                   << [id |-> userMsgId, role |-> "user", content |-> input],
                      [id |-> assistantMsgId, role |-> "assistant",
                       content |-> <<>>] >>
           /\ sends' = Append(sends, [pc |-> "awaiting",
                                       assistantMsgId |-> assistantMsgId,
                                       full |-> <<>>, chunks |-> 0])
    /\ isLoading' = TRUE
    /\ UNCHANGED <<vars, cloudVars>>

\* The stream is obtained: setIsLoading(false) before it is drained.
StreamObtained(s) ==
    /\ sends[s].pc = "awaiting"
    /\ sends' = [sends EXCEPT ![s].pc = "streaming"]
    /\ isLoading' = FALSE
    /\ UNCHANGED <<messages, vars, cloudVars>>

\* getGeminiResponseStream throws: the catch block.
RequestFailed(s) ==
    /\ sends[s].pc = "awaiting"
    /\ sends' = [sends EXCEPT ![s].pc = "done"]
    /\ isLoading' = FALSE
    /\ messages' = SetContent(messages, sends[s].assistantMsgId, ERROR_TEXT)
    /\ UNCHANGED <<vars, cloudVars>>

\* One iteration of for await (const chunk of stream).
Chunk(s, text) ==
    /\ sends[s].pc = "streaming"
    /\ sends[s].chunks < MaxChunks
    /\ IF text # <<>>
       THEN /\ sends' = [sends EXCEPT ![s].full = @ \o text,
                                      ![s].chunks = @ + 1]
            /\ messages' = SetContent(messages, sends[s].assistantMsgId,
                                      sends[s].full \o text)
       ELSE /\ sends' = [sends EXCEPT ![s].chunks = @ + 1]
            /\ messages' = messages
    /\ UNCHANGED <<isLoading, vars, cloudVars>>

\* The stream throws while it is drained: the catch block.
StreamThrows(s) ==
    /\ sends[s].pc = "streaming"
    /\ sends' = [sends EXCEPT ![s].pc = "done"]
    /\ isLoading' = FALSE
    /\ messages' = SetContent(messages, sends[s].assistantMsgId, ERROR_TEXT)
    /\ UNCHANGED <<vars, cloudVars>>

\* The stream ends: onSaveHistory(userText, full) and the handler returns.
StreamEnds(s) ==
    /\ sends[s].pc = "streaming"
    /\ sends' = [sends EXCEPT ![s].pc = "done"]
    /\ UNCHANGED <<messages, isLoading, vars, cloudVars>>

ChatNext ==
    \/ \E input \in Inputs : handleSend(input)
    \/ \E s \in DOMAIN sends : StreamObtained(s)
    \/ \E s \in DOMAIN sends : RequestFailed(s)
    \/ \E s \in DOMAIN sends : \E text \in ChunkTexts : Chunk(s, text)
    \/ \E s \in DOMAIN sends : StreamThrows(s)
    \/ \E s \in DOMAIN sends : StreamEnds(s)

ChatSpec == ChatInit /\ [][ChatNext]_<<vars, chatVars, cloudVars>>

-----------------------------------------------------------------------------
(* GoogleDriveService, and its callers in App: autoSync and AdminDashboard *)

MaxOps == 2
MaxFiles == 2

RuleFileIds == {"f1", "f2"}

\* Lists of rule files, each file at most once.
FileLists ==
    {list \in UNION {[1..n -> RuleFileIds] : n \in 0..MaxFiles} :
        \A i, j \in DOMAIN list : list[i] = list[j] => i = j}

TOKEN == "access_token"

\* What a token response can carry.
TokenResponses == {"error", "token", "neither"}

NOT_CONNECTED == "Not connected to Google Drive"
NOT_INITIALIZED == "Client not initialized"
INIT_FAILED == "gapi.client.init failed"
TOKEN_ERROR == "resp.error"
REQUEST_FAILED == "Drive request failed"

\* The autoSync effect of App and the handler of AdminDashboard.
Tasks == {"auto", "admin"}

IdleTask == [pc |-> "idle", op |-> NONE, client |-> 0, snapshot |-> <<>>,
             thrown |-> NONE]

\* A service that takes itself to be connected whatever the token.
Connected_Always(token) == TRUE

\* !this.accessToken is false
Connected(token) == token # NULL

\* A caller that takes over whatever was loaded.
ShouldReplace_Always(cloudFiles) == TRUE

\* cloudFiles && cloudFiles.length > 0
ShouldReplace(cloudFiles) == Len(cloudFiles) > 0

\* The catch and finally blocks of a caller, or its normal end.
Ended(base, t, err) ==
    [base[t] EXCEPT !.pc = IF t = "auto" THEN "done" ELSE "idle",
                    !.thrown = err]

\* saveFiles and loadFiles up to their first await: the token test, then
\* findDataFile issues files.list.
EnterService(token, reqs) ==
    IF ~Connected(token)
    THEN [thrown |-> NOT_CONNECTED, requests |-> reqs]
    ELSE [thrown |-> NONE, requests |-> Append(reqs, "list")]

\* Task t, whose state is base[t], calls saveFiles or loadFiles.
CallService(t, method, token, base) ==
    LET entered == EnterService(token, requests)
    IN  /\ requests' = entered.requests
        /\ calls' = Append(calls, [method |-> method, token |-> token,
                                   thrown |-> entered.thrown])
        /\ tasks' = [base EXCEPT ![t] =
                        IF entered.thrown = NONE
                        THEN [base[t] EXCEPT !.pc = "list"]
                        ELSE Ended(base, t, entered.thrown)]

CloudInit ==
    /\ accessToken = NULL
    /\ tokenClient = 0
    /\ callbacks = <<>>
    /\ tokenRequests = <<>>
    /\ delivered = FALSE
    /\ requests = <<>>
    /\ calls = <<>>
    /\ driveData \in {NoDataFile} \cup
                     {[exists |-> TRUE, content |-> list] : list \in FileLists}
    /\ ruleFiles \in FileLists
    /\ tasks \in {[t \in Tasks |-> IF t = "auto"
                                    THEN [IdleTask EXCEPT !.pc = start]
                                    ELSE IdleTask] : start \in {"mount", "done"}}
    /\ opsLeft = MaxOps
    /\ ExtractorParked
    /\ ChatParked

\* The effect of App runs autoSync with a configuration marked connected.
autoSync ==
    /\ tasks["auto"].pc = "mount"
    /\ tasks' = [tasks EXCEPT !["auto"].pc = "init", !["auto"].op = "autoSync"]
    /\ UNCHANGED <<accessToken, tokenClient, callbacks, tokenRequests, delivered,
                   requests, calls, driveData, ruleFiles, opsLeft, vars, chatVars>>

handleCloudConnect ==
    /\ tasks["admin"].pc = "idle"
    /\ opsLeft > 0
    /\ opsLeft' = opsLeft - 1
    /\ tasks' = [tasks EXCEPT !["admin"] =
                    [IdleTask EXCEPT !.pc = "init", !.op = "connect"]]
    /\ UNCHANGED <<accessToken, tokenClient, callbacks, tokenRequests, delivered,
                   requests, calls, driveData, ruleFiles, vars, chatVars>>

handleCloudPush ==
    /\ tasks["admin"].pc = "idle"
    /\ opsLeft > 0
    /\ opsLeft' = opsLeft - 1
    /\ CallService("admin", "saveFiles", accessToken,
                   [tasks EXCEPT !["admin"] =
                       [IdleTask EXCEPT !.op = "push", !.snapshot = ruleFiles]])
    /\ UNCHANGED <<accessToken, tokenClient, callbacks, tokenRequests, delivered,
                   driveData, ruleFiles, vars, chatVars>>

handleCloudPull ==
    /\ tasks["admin"].pc = "idle"
    /\ opsLeft > 0
    /\ opsLeft' = opsLeft - 1
    /\ CallService("admin", "loadFiles", accessToken,
                   [tasks EXCEPT !["admin"] = [IdleTask EXCEPT !.op = "pull"]])
    /\ UNCHANGED <<accessToken, tokenClient, callbacks, tokenRequests, delivered,
                   driveData, ruleFiles, vars, chatVars>>

\* init settles: a new token client, holding the callback given by init.
InitReturns(t, ok) ==
    /\ tasks[t].pc = "init"
    /\ IF ok
       THEN /\ tokenClient' = Len(callbacks) + 1
            /\ callbacks' = Append(callbacks, "init")
            /\ tasks' = [tasks EXCEPT ![t].pc = "connect"]
       ELSE /\ tasks' = [tasks EXCEPT ![t] = Ended(tasks, t, INIT_FAILED)]
            /\ UNCHANGED <<tokenClient, callbacks>>
    /\ UNCHANGED <<accessToken, tokenRequests, delivered, requests, calls,
                   driveData, ruleFiles, opsLeft, vars, chatVars>>

\* connect: the callback of the current client is replaced, a token asked for.
Connect(t) ==
    /\ tasks[t].pc = "connect"
    /\ IF tokenClient = 0
       THEN /\ tasks' = [tasks EXCEPT ![t] = Ended(tasks, t, NOT_INITIALIZED)]
            /\ UNCHANGED <<callbacks, tokenRequests>>
       ELSE /\ callbacks' = [callbacks EXCEPT ![tokenClient] = t]
            /\ tokenRequests' = Append(tokenRequests, tokenClient)
            /\ tasks' = [tasks EXCEPT ![t].pc = "token",
                                      ![t].client = tokenClient]
    /\ UNCHANGED <<accessToken, tokenClient, delivered, requests, calls,
                   driveData, ruleFiles, opsLeft, vars, chatVars>>

\* The answer to the i-th open token request runs the callback its client
\* holds; the caller waiting on that callback's promise goes on.
TokenCallback(i, resp) ==
    /\ i \in DOMAIN tokenRequests
    /\ LET client == tokenRequests[i]
           owner == callbacks[client]
           token == IF resp = "token" THEN TOKEN ELSE NULL
           waiting == /\ owner \in Tasks
                      /\ tasks[owner].pc = "token"
                      /\ tasks[owner].client = client
       IN  /\ tokenRequests' = [k \in 1..(Len(tokenRequests) - 1) |->
                                  IF k < i THEN tokenRequests[k]
                                  ELSE tokenRequests[k + 1]]
           /\ IF resp = "error" /\ owner # "init"
              THEN /\ tasks' = IF waiting
                               THEN [tasks EXCEPT ![owner] =
                                        Ended(tasks, owner, TOKEN_ERROR)]
                               ELSE tasks
                   /\ UNCHANGED <<accessToken, delivered, requests, calls>>
              ELSE /\ accessToken' = token
                   /\ delivered' = (delivered \/ token # NULL)
                   /\ IF waiting /\ tasks[owner].op = "autoSync"
                      THEN CallService(owner, "loadFiles", token, tasks)
                      ELSE /\ tasks' = IF waiting
                                       THEN [tasks EXCEPT ![owner] =
                                                Ended(tasks, owner, NONE)]
                                       ELSE tasks
                           /\ UNCHANGED <<requests, calls>>
    /\ UNCHANGED <<tokenClient, callbacks, driveData, ruleFiles, opsLeft, vars,
                   chatVars>>

\* findDataFile settles; saveFiles goes on to the upload, loadFiles to
\* files.get or, without a data file, returns the empty list to its caller.
ListReturns(t, ok) ==
    /\ tasks[t].pc = "list"
    /\ IF ~ok
       THEN /\ tasks' = [tasks EXCEPT ![t] = Ended(tasks, t, REQUEST_FAILED)]
            /\ UNCHANGED <<requests, ruleFiles>>
       ELSE IF tasks[t].op = "push"
       THEN /\ requests' = Append(requests, IF driveData.exists THEN "patch"
                                                                ELSE "post")
            /\ tasks' = [tasks EXCEPT ![t].pc = "upload"]
            /\ UNCHANGED ruleFiles
       ELSE IF driveData.exists
       THEN /\ requests' = Append(requests, "get")
            /\ tasks' = [tasks EXCEPT ![t].pc = "get"]
            /\ UNCHANGED ruleFiles
       ELSE /\ ruleFiles' = IF ShouldReplace(<<>>) THEN <<>> ELSE ruleFiles
            /\ tasks' = [tasks EXCEPT ![t] = Ended(tasks, t, NONE)]
            /\ UNCHANGED requests
    /\ UNCHANGED <<accessToken, tokenClient, callbacks, tokenRequests, delivered,
                   calls, driveData, opsLeft, vars, chatVars>>

\* files.get settles; loadFiles returns response.result to its caller.
GetReturns(t, ok) ==
    /\ tasks[t].pc = "get"
    /\ IF ok
       THEN /\ ruleFiles' = IF ShouldReplace(driveData.content)
                            THEN driveData.content
                            ELSE ruleFiles
            /\ tasks' = [tasks EXCEPT ![t] = Ended(tasks, t, NONE)]
       ELSE /\ tasks' = [tasks EXCEPT ![t] = Ended(tasks, t, REQUEST_FAILED)]
            /\ UNCHANGED ruleFiles
    /\ UNCHANGED <<accessToken, tokenClient, callbacks, tokenRequests, delivered,
                   requests, calls, driveData, opsLeft, vars, chatVars>>

\* The multipart upload settles.
UploadReturns(t, ok) ==
    /\ tasks[t].pc = "upload"
    /\ IF ok
       THEN /\ driveData' = [exists |-> TRUE, content |-> tasks[t].snapshot]
            /\ tasks' = [tasks EXCEPT ![t] = Ended(tasks, t, NONE)]
       ELSE /\ tasks' = [tasks EXCEPT ![t] = Ended(tasks, t, REQUEST_FAILED)]
            /\ UNCHANGED driveData
    /\ UNCHANGED <<accessToken, tokenClient, callbacks, tokenRequests, delivered,
                   requests, calls, ruleFiles, opsLeft, vars, chatVars>>

onAddFiles(f) ==
    /\ opsLeft > 0
    /\ Len(ruleFiles) < MaxFiles
    /\ \A k \in DOMAIN ruleFiles : ruleFiles[k] # f
    /\ opsLeft' = opsLeft - 1
    /\ ruleFiles' = ruleFiles \o <<f>>
    /\ UNCHANGED <<accessToken, tokenClient, callbacks, tokenRequests, delivered,
                   requests, calls, driveData, tasks, vars, chatVars>>

onDeleteFile(id) ==
    /\ opsLeft > 0
    /\ \E k \in DOMAIN ruleFiles : ruleFiles[k] = id
    /\ opsLeft' = opsLeft - 1
    /\ ruleFiles' = SelectSeq(ruleFiles, LAMBDA f : f # id)
    /\ UNCHANGED <<accessToken, tokenClient, callbacks, tokenRequests, delivered,
                   requests, calls, driveData, tasks, vars, chatVars>>

CloudNext ==
    \/ autoSync
    \/ handleCloudConnect
    \/ handleCloudPush
    \/ handleCloudPull
    \/ \E t \in Tasks : \E ok \in BOOLEAN : InitReturns(t, ok)
    \/ \E t \in Tasks : Connect(t)
    \/ \E i \in DOMAIN tokenRequests : \E resp \in TokenResponses :
           TokenCallback(i, resp)
    \/ \E t \in Tasks : \E ok \in BOOLEAN : ListReturns(t, ok)
    \/ \E t \in Tasks : \E ok \in BOOLEAN : GetReturns(t, ok)
    \/ \E t \in Tasks : \E ok \in BOOLEAN : UploadReturns(t, ok)
    \/ \E f \in RuleFileIds : onAddFiles(f)
    \/ \E id \in RuleFileIds : onDeleteFile(id)

CloudSpec == CloudInit /\ [][CloudNext]_<<vars, chatVars, cloudVars>>

-----------------------------------------------------------------------------
(* Vocabulary of the properties *)

\* A processWorkbookRobustly call has run on a non-empty grid and its locals
\* are in rows, headerIndex, mapping and employees.
Ran == pc \in {"first_done", "retried", "settled"} /\ ~threw /\ Len(sheet) > 0

\* The text of a cell: its characters, nothing for a cell that is not there.
Text(c) == IF c.t = "u" THEN <<>> ELSE c.v

Fields == <<"code", "name", "dept", "role">>

SynonymsOf(f) ==
    CASE f = "code" -> TARGET_HEADERS.CODE
      [] f = "name" -> TARGET_HEADERS.NAME
      [] f = "dept" -> TARGET_HEADERS.DEPT
      [] OTHER      -> TARGET_HEADERS.ROLE

\* The normalized cell is not empty and contains the normalized form of a
\* synonym of field f.
ContainsSynonym(cell, f) ==
    LET n == extremeNormalize(cell)
    IN  /\ n # <<>>
        /\ \E j \in 1..Len(SynonymsOf(f)) :
               Includes(n, nkOf[SynonymsOf(f)[j]])

HasAt(cell) == HasChar(extremeNormalize(cell), "@")

\* The first field in priority order, outside taken, whose list the cell
\* matches; 0 if there is none.
FirstFree(cell, taken) ==
    LET cand == {p \in 1..4 : Fields[p] \notin taken /\ ContainsSynonym(cell, Fields[p])}
    IN  IF cand = {} THEN 0 ELSE CHOOSE p \in cand : \A q \in cand : p <= q

\* The field a cell fills when the fields in taken are filled: none ("") for
\* a NAME match containing '@'.
Fills(cell, taken) ==
    LET p == FirstFree(cell, taken)
    IN  IF p = 0 \/ (Fields[p] = "name" /\ HasAt(cell)) THEN "" ELSE Fields[p]

\* The left-to-right scan of the row fills at least two fields: its leftmost
\* filling cell, and a later cell that fills another field.
Qualifies(row) ==
    \E a \in 1..Len(row) :
        /\ Fills(row[a], {}) # ""
        /\ \A z \in 1..(a - 1) : Fills(row[z], {}) = ""
        /\ \E b \in (a + 1)..Len(row) : Fills(row[b], {Fills(row[a], {})}) # ""

\* The cell counts as a match of field f: a NAME match containing '@' does not.
CountsFor(cell, f) == ContainsSynonym(cell, f) /\ ~(f = "name" /\ HasAt(cell))

\* The row has two cells matching distinct synonym lists.
TwoDistinctMatches(row) ==
    \E a, b \in 1..Len(row) : \E f, g \in {"code", "name", "dept", "role"} :
        a # b /\ f # g /\ CountsFor(row[a], f) /\ CountsFor(row[b], g)

MinOf(S) == CHOOSE x \in S : \A y \in S : x <= y

-----------------------------------------------------------------------------
(* C1 *)

RowsWithTwoMatches == {i \in 0..(Len(rows) - 1) : TwoDistinctMatches(rows[i + 1])}

\* C1 as stated: whenever some row of the grid has two cells matching distinct
\* synonym lists, the header row is the lowest such row.
C1_Original ==
    (Ran /\ RowsWithTwoMatches # {}) => headerIndex = MinOf(RowsWithTwoMatches)

QualifyingRows ==
    {i \in 0..(Len(rows) - 1) : i < 50 /\ Qualifies(rows[i + 1])}

\* C1: the header row is the lowest-index row, among the first 50, whose
\* left-to-right scan fills at least two field slots (a later row is never
\* preferred, whatever it matches); when no such row exists the header row is
\* row 0.
C1_FirstQualifyingRow ==
    Ran => headerIndex = (IF QualifyingRows = {} THEN 0 ELSE MinOf(QualifyingRows))

\* Two rows qualify, the lower one with more matches, and the upper one is
\* the header.
C1_Witness ==
    /\ Ran
    /\ Cardinality(QualifyingRows) >= 2
    /\ headerIndex = MinOf(QualifyingRows)
    /\ \E i \in QualifyingRows :
           /\ i > headerIndex
           /\ ScanRow(rows[i + 1]).matchCount
                  > ScanRow(rows[headerIndex + 1]).matchCount

-----------------------------------------------------------------------------
(* C2 - C5 *)

\* The k-th smallest element of a set of integers.
Kth(S, k) == CHOOSE x \in S : Cardinality({y \in S : y < x}) = k - 1

DataIndices == {i \in 0..(Len(rows) - 1) : i > headerIndex}

\* The trimmed text of the cell of row i in column col.
TrimmedText(i, col) == Trim(Text(At(rows[i + 1], col)))

\* Row i has a cell, and its trimmed name is non-empty and has no '@'.
ValidRow(i) ==
    /\ Len(rows[i + 1]) >= 1
    /\ TrimmedText(i, mapping.name) # <<>>
    /\ ~HasChar(TrimmedText(i, mapping.name), "@")

ValidRows == {i \in DataIndices : ValidRow(i)}

\* C2 as stated: the records are, in row order, those of the rows after the
\* header row that have a cell and a non-empty trimmed name without '@'.
C2_Original ==
    Ran => /\ Len(employees) = Cardinality(ValidRows)
           /\ \A k \in 1..Len(employees) :
                  /\ k <= Cardinality(ValidRows)
                  /\ employees[k].name = TrimmedText(Kth(ValidRows, k), mapping.name)
                  /\ employees[k].name # <<>>
                  /\ ~HasChar(employees[k].name, "@")

\* The rows the extraction loop emits a record for, and the row of record k.
EmittedRows == {i \in DataIndices : ~Skipped(rows[i + 1], mapping)}
RowOf(k) == Kth(EmittedRows, k)

OrSentinel(text, sentinel) == IF text # <<>> THEN text ELSE sentinel

\* C3 as stated: department and role are the trimmed cell text, or the
\* sentinel when that text is empty; neither is ever the empty string.
C3_Original ==
    Ran => \A k \in 1..Len(employees) :
               /\ employees[k].department
                      = OrSentinel(TrimmedText(RowOf(k), mapping.dept), DEPT_UNKNOWN)
               /\ employees[k].role
                      = OrSentinel(TrimmedText(RowOf(k), mapping.role), GENERAL)
               /\ employees[k].department # <<>>
               /\ employees[k].role # <<>>

\* C4 as stated: code is the trimmed cell text, or the stringified 0-based
\* row index when that text is empty; it is never empty.
C4_Original ==
    Ran => \A k \in 1..Len(employees) :
               /\ employees[k].code
                      = OrSentinel(TrimmedText(RowOf(k), mapping.code), Digits(RowOf(k)))
               /\ employees[k].code # <<>>

\* The "label: value" pairs of row i for the columns idx.. of the header row
\* whose trimmed text in row i is non-empty.
RECURSIVE PairsFrom(_, _)
PairsFrom(i, idx) ==
    IF idx >= Len(rows[headerIndex + 1]) THEN <<>>
    ELSE (IF TrimmedText(i, idx) # <<>>
          THEN << hNameOf(rows[headerIndex + 1], idx) \o <<":", " ">>
                  \o TrimmedText(i, idx) >>
          ELSE <<>>)
         \o PairsFrom(i, idx + 1)

\* C5 as stated: rawInfo joins with ", " one pair per header column whose
\* trimmed value in the row is non-empty, in column order.
C5_Original ==
    Ran => \A k \in 1..Len(employees) :
               employees[k].rawInfo = Join(PairsFrom(RowOf(k), 0), <<",", " ">>)

-----------------------------------------------------------------------------
(* C6 *)

\* The delimiter a text holds: the tab before the comma, "" for neither.
DelimiterOf(text) ==
    IF HasChar(text, "\t") THEN "\t" ELSE IF HasChar(text, ",") THEN "," ELSE ""

Joined == Ran /\ looksLikeJoined(sheet)

\* The text of the first cell of the grid: that of its first row with a cell.
FirstCellText ==
    LET withCell == {i \in 1..Len(sheet) : Len(sheet[i]) >= 1}
    IN  IF withCell = {} THEN <<>> ELSE Text(At(sheet[MinOf(withCell)], 0))

\* C6 as stated: the first cell of the grid decides one delimiter, and every
\* row holding that delimiter is split on it, the other rows being kept.
C6_Original ==
    Joined =>
        \A i \in 1..Len(sheet) :
            LET d    == DelimiterOf(FirstCellText)
                text == Text(At(sheet[i], 0))
            IN  i <= Len(rows)
                /\ rows[i] = (IF d # "" /\ HasChar(text, d)
                              THEN StrCells(Split(text, d))
                              ELSE sheet[i])

\* The cells are strings without the character d whose d-join is text.
IsSplitOf(cells, text, d) ==
    /\ \A j \in 1..Len(cells) : cells[j].t = "s" /\ ~HasChar(cells[j].v, d)
    /\ Join([j \in 1..Len(cells) |-> cells[j].v], <<d>>) = text

\* C6: when every row has at most one cell, each row is re-split on the
\* delimiter its own cell holds (tab if it has a tab, otherwise comma if it
\* has a comma) and a row holding neither is kept.
C6_RowDecidesDelimiter ==
    Joined =>
        /\ Len(rows) = Len(sheet)
        /\ \A i \in 1..Len(sheet) :
               LET text == Text(At(sheet[i], 0))
                   d    == DelimiterOf(text)
               IN  IF d = "" THEN rows[i] = sheet[i]
                   ELSE IsSplitOf(rows[i], text, d)

\* A grid of single cells with a row split on the tab and another on the
\* comma, in which the header is then found and a record extracted.
C6_Witness ==
    /\ Joined
    /\ \E i, j \in 1..Len(sheet) :
           /\ DelimiterOf(Text(At(sheet[i], 0))) = "\t"
           /\ DelimiterOf(Text(At(sheet[j], 0))) = ","
           /\ Len(rows[i]) >= 2 /\ Len(rows[j]) >= 2
    /\ QualifyingRows # {}
    /\ Len(employees) > 0

-----------------------------------------------------------------------------
(* C7 *)

Positional == [code |-> 0, name |-> 1, dept |-> 2, role |-> 3]

PositionalRows == {i \in 1..(Len(rows) - 1) : ~Skipped(rows[i + 1], Positional)}

\* C7: when no row among the first 50 reaches two field matches, the call
\* takes row 0 as header with the mapping code=0, name=1, department=2,
\* role=3, extracts rows 1.. under it without an error, and the run is
\* rejected only if that gives no record.
C7_PositionalFallback ==
    (Ran /\ QualifyingRows = {}) =>
        /\ headerIndex = 0
        /\ mapping = Positional
        /\ Len(employees) = Cardinality(PositionalRows)
        /\ \A k \in 1..Len(employees) :
               /\ k <= Cardinality(PositionalRows)
               /\ employees[k].name = TrimmedText(Kth(PositionalRows, k), 1)
        /\ (promise = "rejected" => Len(employees) = 0)

\* No row qualifies, the positional mapping gives a record and the run
\* resolves with it.
C7_Witness ==
    /\ Ran
    /\ QualifyingRows = {}
    /\ Len(employees) > 0
    /\ promise = "resolved"
    /\ resolved = employees

-----------------------------------------------------------------------------
(* C8, C9 *)

CsvFile == file.name \in {CSV_LOWER, CSV_UPPER}

NonEmptyAttempts == {a \in 1..Len(attempts) : attempts[a].employees # <<>>}

\* C8: for a .csv file the first attempt decodes under codepage 932, the
\* default attempt is made if and only if that attempt gave no record, and
\* the records returned are those of the first attempt that gave some.
C8_CsvOrder ==
    CsvFile =>
        /\ Len(attempts) >= 1 => attempts[1].cp = "cp932"
        /\ Len(attempts) >= 2 =>
               /\ Len(attempts) = 2
               /\ attempts[1].employees = <<>>
               /\ attempts[2].cp = "cpDefault"
        /\ pc = "settled" => (Len(attempts) = 2 <=> attempts[1].employees = <<>>)
        /\ promise = "resolved" =>
               /\ NonEmptyAttempts # {}
               /\ resolved = attempts[MinOf(NonEmptyAttempts)].employees

\* A .csv file whose codepage 932 attempt gave nothing and whose default
\* attempt gave the records returned.
C8_Witness ==
    /\ CsvFile
    /\ promise = "resolved"
    /\ Len(attempts) = 2
    /\ attempts[1].cp = "cp932"
    /\ resolved = attempts[2].employees

\* C9: the promise is never resolved with an empty list; when every attempt
\* gave no record it is rejected with the diagnostic message, and it is
\* rejected in no other case.
C9_NeverResolvesEmpty ==
    /\ promise = "resolved" => Len(resolved) >= 1 /\ rejected = NONE
    /\ (pc = "settled" /\ NonEmptyAttempts = {}) =>
           promise = "rejected" /\ rejected = NO_EMPLOYEES
    /\ promise = "rejected" =>
           NonEmptyAttempts = {} /\ rejected = NO_EMPLOYEES /\ resolved = <<>>

\* Both attempts gave no record and the promise is rejected with the message.
C9_Witness ==
    /\ promise = "rejected"
    /\ Len(attempts) = 2
    /\ rejected = NO_EMPLOYEES

-----------------------------------------------------------------------------
(* C10 *)

\* The normalized forms of the cell and of a synonym of f are equal, or one
\* contains the other.
EitherContains(cell, f) ==
    LET n == extremeNormalize(cell)
    IN  \E j \in 1..Len(SynonymsOf(f)) :
            LET nk == nkOf[SynonymsOf(f)[j]]
            IN  n = nk \/ Includes(n, nk) \/ Includes(nk, n)

\* The cells header detection tests against the lists: those with a non-empty
\* normalized form in the rows of at least two cells among the first 50.
TestedCells ==
    UNION {{rows[i][j] : j \in {z \in 1..Len(rows[i]) :
                                   extremeNormalize(rows[i][z]) # <<>>}} :
              i \in {y \in 1..Len(rows) : y <= 50 /\ Len(rows[y]) >= 2}}

\* C10 as stated: a cell matches a synonym list exactly when its normalized
\* form equals, contains or is contained in the normalized form of a synonym.
C10_Original ==
    Ran => \A c \in TestedCells : \A p \in 1..4 :
               isMatch(extremeNormalize(c), SynonymsOf(Fields[p]))
                   <=> EitherContains(c, Fields[p])

\* The least column of the row whose cell contains a synonym of f, or -1.
FirstColumnOf(row, f) ==
    LET cols == {j \in 0..(Len(row) - 1) : ContainsSynonym(row[j + 1], f)}
    IN  IF cols = {} THEN -1 ELSE MinOf(cols)

\* C10: a cell matches a synonym list exactly when its normalized form equals
\* or contains the normalized form of a synonym of the list; a cell merely
\* contained in a synonym is no match.  So every column of a header row found
\* by matching holds a cell containing a synonym of its field, and the code
\* column is the leftmost cell containing a CODE synonym.
C10_SynonymInCell ==
    Ran =>
        /\ \A c \in TestedCells : \A p \in 1..4 :
               isMatch(extremeNormalize(c), SynonymsOf(Fields[p]))
                   <=> ContainsSynonym(c, Fields[p])
        /\ QualifyingRows # {} =>
               /\ \A p \in 1..4 :
                      mapping[Fields[p]] # -1 =>
                          ContainsSynonym(At(rows[headerIndex + 1], mapping[Fields[p]]),
                                          Fields[p])
               /\ mapping.code = FirstColumnOf(rows[headerIndex + 1], "code")

\* A header row found by matching whose code cell is longer than the synonym
\* it contains, below a row with a cell that is only a part of a synonym.
C10_Witness ==
    /\ Ran
    /\ QualifyingRows # {}
    /\ headerIndex > 0
    /\ mapping.code # -1
    /\ \A j \in 1..Len(TARGET_HEADERS.CODE) :
           extremeNormalize(At(rows[headerIndex + 1], mapping.code))
               # nkOf[TARGET_HEADERS.CODE[j]]
    /\ \E j \in 1..Len(rows[1]) :
           /\ EitherContains(rows[1][j], "name")
           /\ ~ContainsSynonym(rows[1][j], "name")

-----------------------------------------------------------------------------
(* C11 *)

UpperCase == {"I", "D", "C", "N", "O", "S", "V", "FW_I", "FW_D"}

CellsOfRows == UNION {{rows[i][j] : j \in 1..Len(rows[i])} : i \in 1..Len(rows)}

\* The texts differ only by whitespace, only by letter case, or only by
\* compatibility form.
DifferOnlyByForm(a, b) ==
    \/ StripWhiteSpace(a) = StripWhiteSpace(b)
    \/ ToLowerCase(a) = ToLowerCase(b)
    \/ NFKC(a) = NFKC(b)

\* C11 as stated: extremeNormalize maps undefined to the empty string; the
\* key of every cell has no whitespace and no upper-case letter; normalizing
\* a key again gives the same key; and two cells whose texts differ only by
\* whitespace, by letter case or by compatibility form have the same key.
C11_Original ==
    /\ extremeNormalize(Undefined) = <<>>
    /\ Ran =>
           \A c \in CellsOfRows :
               LET key == extremeNormalize(c)
               IN  /\ \A k \in 1..Len(key) : key[k] \notin WhiteSpace \cup UpperCase
                   /\ extremeNormalize(Str(key)) = key
                   /\ \A d \in CellsOfRows :
                          DifferOnlyByForm(String(c), String(d))
                              => extremeNormalize(d) = key

-----------------------------------------------------------------------------
(* C12 *)

\* Indices of the rows header detection can scan: among the first 50, with
\* two cells or more.
CandidateRows == {i \in 0..(Len(rows) - 1) : i < 50 /\ Len(rows[i + 1]) >= 2}

\* Field f was filled by a cell to the left of column idx.
FilledBefore(m, f, idx) == m[f] \in 0..(idx - 1)

\* Column idx is assigned to no field.
Unassigned(m, idx) == \A p \in 1..4 : m[Fields[p]] # idx

\* C12 as stated: in the scan of a candidate row, a cell matching the NAME
\* list becomes the name column exactly when its normalized text has no '@'
\* and no earlier cell filled the name slot; with '@' it is not the name column
\* and is no field match of the row.
C12_Original ==
    Ran =>
        \A i \in CandidateRows :
            LET row == rows[i + 1]
                m == ScanRow(row).currentMapping
            IN  \A idx \in 0..(Len(row) - 1) :
                    ContainsSynonym(row[idx + 1], "name") =>
                        /\ m.name = idx <=> (/\ ~HasAt(row[idx + 1])
                                             /\ ~FilledBefore(m, "name", idx))
                        /\ HasAt(row[idx + 1]) => Unassigned(m, idx)

\* The cell at column idx of the row comes to the NAME test: it was not taken
\* as the code column and the name slot is unfilled.
ReachesNameTest(row, m, idx) ==
    /\ ContainsSynonym(row[idx + 1], "name")
    /\ ~FilledBefore(m, "name", idx)
    /\ FilledBefore(m, "code", idx) \/ ~ContainsSynonym(row[idx + 1], "code")

\* C12: in the scan of a candidate row, a NAME-matching cell that comes to the
\* NAME test becomes the name column exactly when its normalized text has no
\* '@', and with '@' it is assigned to no field; a NAME-matching cell with '@'
\* is never the name column; and matchCount counts the filled fields.
C12_NameUnlessAt ==
    Ran =>
        \A i \in CandidateRows :
            LET row == rows[i + 1]
                m == ScanRow(row).currentMapping
            IN  /\ ScanRow(row).matchCount
                       = Cardinality({p \in 1..4 : m[Fields[p]] # -1})
                /\ \A idx \in 0..(Len(row) - 1) :
                       /\ ReachesNameTest(row, m, idx) =>
                              /\ m.name = idx <=> ~HasAt(row[idx + 1])
                              /\ HasAt(row[idx + 1]) => Unassigned(m, idx)
                       /\ (ContainsSynonym(row[idx + 1], "name") /\ HasAt(row[idx + 1]))
                              => m.name # idx

\* A candidate row where a NAME-matching cell with '@' came to the NAME test
\* and was passed over, and a later cell became the name column.
C12_Witness ==
    /\ Ran
    /\ \E i \in CandidateRows :
           LET row == rows[i + 1]
               m == ScanRow(row).currentMapping
           IN  \E idx \in 0..(Len(row) - 1) :
                   /\ ReachesNameTest(row, m, idx)
                   /\ HasAt(row[idx + 1])
                   /\ Unassigned(m, idx)
                   /\ m.name > idx

-----------------------------------------------------------------------------
(* C13 *)

\* C13 as stated: after header location each of the four mapping indices is
\* unset or a column index of the header row.
C13_Original ==
    Ran =>
        \A p \in 1..4 :
            \/ mapping[Fields[p]] = -1
            \/ mapping[Fields[p]] \in 0..(Len(rows[headerIndex + 1]) - 1)

\* C13: a mapping obtained by synonym matching has each index unset or a
\* column index of the header row; the fallback mapping is 0, 1, 2, 3 whatever
\* the width of row 0.
C13_ValidUnlessFallback ==
    Ran =>
        IF QualifyingRows # {}
        THEN \A p \in 1..4 :
                 \/ mapping[Fields[p]] = -1
                 \/ mapping[Fields[p]] \in 0..(Len(rows[headerIndex + 1]) - 1)
        ELSE \A p \in 1..4 : mapping[Fields[p]] = p - 1

\* A header row found by matching with a field left unset and another field
\* on its last column.
C13_Witness ==
    /\ Ran
    /\ QualifyingRows # {}
    /\ \E p, q \in 1..4 :
           /\ mapping[Fields[p]] = -1
           /\ mapping[Fields[q]] = Len(rows[headerIndex + 1]) - 1

-----------------------------------------------------------------------------
(* C14 *)

\* Rows after the header row that are malformed: no cell, or a trimmed name
\* that is empty or contains '@'.
MalformedRows == DataIndices \ ValidRows

\* C14 as stated: malformed rows are skipped and leave the records of the
\* other rows alone: the call on a grid with a valid data row resolves with
\* one record per valid row, in row order, carrying the trimmed name of its
\* row, however many malformed rows lie between them.
C14_Original ==
    (Ran /\ pc = "settled" /\ ValidRows # {}) =>
        /\ promise = "resolved"
        /\ Len(resolved) = Cardinality(ValidRows)
        /\ \A k \in 1..Len(resolved) :
               /\ k <= Cardinality(ValidRows)
               /\ resolved[k].name = TrimmedText(Kth(ValidRows, k), mapping.name)

-----------------------------------------------------------------------------
(* C15 *)

\* currentMapping after the scan has passed the first k cells of the row.
MappingAfter(row, k) == ScanRow(SubSeq(row, 1, k)).currentMapping

\* C15: in the scan of a candidate row a slot, once filled, keeps its index
\* to the end of the row: after the first k cells each slot holds its final
\* index if that index is among those k columns, and is unset otherwise.
C15_SlotsFilledOnce ==
    Ran =>
        \A i \in CandidateRows :
            LET row == rows[i + 1]
                m == ScanRow(row).currentMapping
            IN  \A k \in 0..Len(row) : \A p \in 1..4 :
                    MappingAfter(row, k)[Fields[p]]
                        = (IF m[Fields[p]] \in 0..(k - 1) THEN m[Fields[p]] ELSE -1)

\* A candidate row with a filled slot and, to the right of its column, another
\* cell matching the same synonym list.
C15_Witness ==
    /\ Ran
    /\ \E i \in CandidateRows :
           LET row == rows[i + 1]
               m == ScanRow(row).currentMapping
           IN  \E p \in 1..4 : \E z \in 1..Len(row) :
                   /\ m[Fields[p]] # -1
                   /\ z - 1 > m[Fields[p]]
                   /\ ContainsSynonym(row[z], Fields[p])

-----------------------------------------------------------------------------
(* C16 *)

\* C16 as stated: the first list a cell matches, in the order CODE, NAME,
\* DEPARTMENT, ROLE, wins: a cell assigned to a field matches no list of
\* higher priority.
C16_Original ==
    Ran =>
        \A i \in CandidateRows :
            LET row == rows[i + 1]
                m == ScanRow(row).currentMapping
            IN  \A idx \in 0..(Len(row) - 1) : \A p \in 1..4 :
                    m[Fields[p]] = idx =>
                        \A q \in 1..(p - 1) : ~ContainsSynonym(row[idx + 1], Fields[q])

\* The fields filled by cells to the left of column idx.
TakenBefore(m, idx) == {Fields[p] : p \in {q \in 1..4 : FilledBefore(m, Fields[q], idx)}}

\* C16: a cell is tested in the order CODE, NAME, DEPARTMENT, ROLE against the
\* lists whose slot is still unfilled, and the first of those it matches wins:
\* the cell is assigned to that field, or to none if that list is NAME and the
\* cell contains '@'; a cell matching no list of an unfilled slot is assigned
\* to no field.
C16_FirstFreeListWins ==
    Ran =>
        \A i \in CandidateRows :
            LET row == rows[i + 1]
                m == ScanRow(row).currentMapping
            IN  \A idx \in 0..(Len(row) - 1) :
                    LET f == Fills(row[idx + 1], TakenBefore(m, idx))
                    IN  {Fields[p] : p \in {q \in 1..4 : m[Fields[q]] = idx}}
                            = (IF f = "" THEN {} ELSE {f})

\* A candidate row with a cell assigned to a field although it also matches
\* a list of higher priority, whose slot an earlier cell had filled.
C16_Witness ==
    /\ Ran
    /\ \E i \in CandidateRows :
           LET row == rows[i + 1]
               m == ScanRow(row).currentMapping
           IN  \E idx \in 0..(Len(row) - 1) : \E p \in 1..4 : \E q \in 1..4 :
                   /\ m[Fields[p]] = idx
                   /\ q < p
                   /\ ContainsSynonym(row[idx + 1], Fields[q])
                   /\ FilledBefore(m, Fields[q], idx)

-----------------------------------------------------------------------------
(* C17 *)

\* C17: the header row is never at index 50 or beyond; a header row that is
\* not the positional fallback - its index is not 0 or its mapping is not
\* 0, 1, 2, 3 - is among the first 50 rows and has two cells or more; and when
\* no such row has two matching cells, the outcome is the fallback, whatever
\* the other rows hold.
C17_OnlyCandidateRows ==
    Ran =>
        /\ headerIndex < 50
        /\ (headerIndex # 0 \/ mapping # Positional) => headerIndex \in CandidateRows
        /\ (\A i \in CandidateRows : ~TwoDistinctMatches(rows[i + 1]))
               => (headerIndex = 0 /\ mapping = Positional)

\* A row at index 50 has matches for two fields and the outcome is the
\* fallback.
C17_Witness ==
    /\ Ran
    /\ Len(rows) > 50
    /\ Qualifies(rows[51])
    /\ \A i \in CandidateRows : ~TwoDistinctMatches(rows[i + 1])
    /\ headerIndex = 0
    /\ mapping = Positional

-----------------------------------------------------------------------------
(* C18 *)

\* C18: the delimiter rescue leaves the grid as decoded whenever some row has
\* two cells or more; when every row has at most one cell, a row whose cell
\* holds neither a tab nor a comma is left as it is.
C18_RescueOnlyJoinedGrids ==
    Ran =>
        IF \E i \in 1..Len(sheet) : Len(sheet[i]) >= 2
        THEN rows = sheet
        ELSE /\ Len(rows) = Len(sheet)
             /\ \A i \in 1..Len(sheet) :
                    (/\ ~HasChar(Text(At(sheet[i], 0)), "\t")
                     /\ ~HasChar(Text(At(sheet[i], 0)), ","))
                        => rows[i] = sheet[i]

\* A grid with a row of two cells whose cells hold a tab or a comma, one of
\* them the only cell of its row, and the grid is left as decoded.
C18_Witness ==
    /\ Ran
    /\ rows = sheet
    /\ \E i, j \in 1..Len(sheet) :
           /\ Len(sheet[i]) >= 2
           /\ DelimiterOf(Text(sheet[i][1])) # ""
           /\ Len(sheet[j]) = 1
           /\ DelimiterOf(Text(sheet[j][1])) # ""

-----------------------------------------------------------------------------
(* C19 *)

\* The label of column idx: the trimmed text of the header row's cell when
\* that is non-empty, otherwise the synthesized ITEM label with the index.
LabelOf(idx) ==
    OrSentinel(Trim(Text(At(rows[headerIndex + 1], idx))), ITEM \o Digits(idx))

\* The value shown for column idx of row i: the trimmed text of a truthy cell.
ShownValue(i, idx) ==
    IF Truthy(At(rows[i + 1], idx)) THEN TrimmedText(i, idx) ELSE <<>>

\* The pairs of row i for the columns idx.. of the header row, each under the
\* label of its column.
RECURSIVE LabelledPairsFrom(_, _)
LabelledPairsFrom(i, idx) ==
    IF idx >= Len(rows[headerIndex + 1]) THEN <<>>
    ELSE (IF ShownValue(i, idx) # <<>>
          THEN << LabelOf(idx) \o <<":", " ">> \o ShownValue(i, idx) >>
          ELSE <<>>)
         \o LabelledPairsFrom(i, idx + 1)

\* C19 as stated: every pair of rawInfo carries a non-empty label, the text
\* of the header row's cell of its column when that is non-empty and the
\* synthesized label with the column index otherwise.
C19_Original ==
    Ran => \A k \in 1..Len(employees) :
               employees[k].rawInfo
                   = Join(LabelledPairsFrom(RowOf(k), 0), <<",", " ">>)

-----------------------------------------------------------------------------
(* C20 *)

\* Decoding or processing threw in the k-th attempt.
ThrewIn(k) == ~file[attempts[k].cp].ok

\* C20: an attempt in which decoding or processing throws counts as an attempt
\* with no record and the exception goes no further: after a first attempt
\* that threw, the call settles only after a second attempt; the only
\* rejection is the one for no employee data, after two attempts without a
\* record; and a call settled with a record-bearing attempt has resolved with
\* those records.
C20_FailureCountsAsEmpty ==
    /\ \A k \in 1..Len(attempts) :
           ThrewIn(k) =>
               /\ attempts[k].employees = <<>>
               /\ (k = 1 /\ pc = "settled") => Len(attempts) = 2
    /\ rejected \in {NONE, NO_EMPLOYEES}
    /\ promise = "rejected" =>
           /\ Len(attempts) = 2
           /\ \A k \in 1..Len(attempts) : attempts[k].employees = <<>>
    /\ pc = "settled" =>
           \A k \in 1..Len(attempts) :
               attempts[k].employees # <<>> =>
                   (promise = "resolved" /\ resolved = attempts[k].employees)

\* The first attempt threw, the second gave records, and the call resolved
\* with them.
C20_Witness ==
    /\ pc = "settled"
    /\ Len(attempts) = 2
    /\ ThrewIn(1)
    /\ ~ThrewIn(2)
    /\ promise = "resolved"
    /\ resolved = attempts[2].employees
    /\ Len(resolved) > 0

-----------------------------------------------------------------------------
(* C21 *)

\* C21: a call makes at most two decode attempts; a second attempt follows a
\* first one that returned no record; and for a file whose name does not end
\* in .csv no attempt uses codepage 932.
C21_AtMostTwoAttempts ==
    /\ Len(attempts) <= 2
    /\ Len(attempts) = 2 => attempts[1].employees = <<>>
    /\ pc \in {"idle", "reading", "read_failed"} => attempts = <<>>
    /\ ~CsvFile => \A k \in 1..Len(attempts) : attempts[k].cp # "cp932"

\* A call on a file that is not .csv settled after two attempts, both with
\* the default codepage.
C21_Witness ==
    /\ pc = "settled"
    /\ ~CsvFile
    /\ Len(attempts) = 2
    /\ attempts[1].cp = "cpDefault"
    /\ attempts[2].cp = "cpDefault"

-----------------------------------------------------------------------------
(* C22 *)

\* C22 as stated: every call eventually settles, the promise being resolved
\* or rejected, whether the file read succeeds or fails.
C22_Original == <>(promise \in {"resolved", "rejected"})

-----------------------------------------------------------------------------
(* C23 *)

\* The indices of m that are set are pairwise distinct.
DistinctColumns(m) ==
    \A p, q \in 1..4 :
        (p # q /\ m[Fields[p]] # -1 /\ m[Fields[q]] # -1)
            => m[Fields[p]] # m[Fields[q]]

\* C23: the mapping produced by header detection, and the mapping of the scan
\* of every candidate row, have pairwise distinct set indices: no column is
\* assigned to two fields.
C23_DistinctColumns ==
    Ran =>
        /\ DistinctColumns(mapping)
        /\ \A i \in CandidateRows : DistinctColumns(ScanRow(rows[i + 1]).currentMapping)

\* A header row found by matching which has a cell matching two synonym
\* lists, with that cell as the column of one field only.
C23_Witness ==
    /\ Ran
    /\ QualifyingRows # {}
    /\ \E j \in 1..Len(rows[headerIndex + 1]) : \E p, q \in 1..4 :
           /\ p # q
           /\ ContainsSynonym(rows[headerIndex + 1][j], Fields[p])
           /\ ContainsSynonym(rows[headerIndex + 1][j], Fields[q])
           /\ mapping[Fields[p]] = j - 1
           /\ mapping[Fields[q]] \notin {-1, j - 1}

-----------------------------------------------------------------------------
(* C24 *)

\* The sends whose record the step changes.
ActingSends == {s \in DOMAIN sends : sends'[s] # sends[s]}

\* C24: a step of ChatInterface keeps every message in its place with its id
\* and role; it changes the content of a message only if that message is the
\* assistant placeholder created by the send that takes the step, the new
\* content being that send's accumulated text or the error text; and messages
\* are added, two at the end, only by the start of a send.
C24_OwnPlaceholderOnly ==
    [][/\ Len(messages') >= Len(messages)
       /\ \A k \in 1..Len(messages) :
              /\ messages'[k].id = messages[k].id
              /\ messages'[k].role = messages[k].role
              /\ messages'[k].content # messages[k].content =>
                     \E s \in ActingSends :
                         /\ sends[s].assistantMsgId = messages[k].id
                         /\ messages[k].role = "assistant"
                         /\ k = 2 * s + 1
                         /\ messages'[k].content \in {sends'[s].full, ERROR_TEXT}
       /\ Len(messages') # Len(messages) =>
              /\ Len(messages') = Len(messages) + 2
              /\ Len(sends') = Len(sends) + 1
      ]_<<messages, sends>>

\* Two sends are streaming at once, each with text in its own placeholder
\* and the two texts different.
C24_Witness ==
    /\ Len(sends) >= 2
    /\ sends[1].pc = "streaming"
    /\ sends[2].pc = "streaming"
    /\ sends[1].full # <<>>
    /\ sends[2].full # <<>>
    /\ sends[1].full # sends[2].full
    /\ messages[3].content = sends[1].full
    /\ messages[5].content = sends[2].full

-----------------------------------------------------------------------------
(* C25 *)

\* C25: a step of autoSync or of an AdminDashboard cloud handler changes the
\* local files only if in that step a files.get of a load (autoSync or pull)
\* returned without error a non-empty list, and then the local files are
\* that list; a load that fails, that finds no data file or that returns the
\* empty list leaves the local files as they were.
C25_ReplacedOnlyByNonEmptyLoad ==
    [][tasks' # tasks /\ ruleFiles' # ruleFiles =>
          \E t \in Tasks :
              /\ tasks[t].pc = "get"
              /\ tasks[t].op \in {"autoSync", "pull"}
              /\ tasks'[t].pc # "get"
              /\ tasks'[t].thrown = NONE
              /\ driveData.exists
              /\ driveData.content # <<>>
              /\ ruleFiles' = driveData.content
      ]_<<tasks, ruleFiles>>

\* A manual pull has loaded the empty list from the data file, without
\* error, and the local files are still there.
C25_Witness ==
    /\ tasks["admin"].pc = "idle"
    /\ tasks["admin"].op = "pull"
    /\ tasks["admin"].thrown = NONE
    /\ \E k \in DOMAIN requests : requests[k] = "get"
    /\ tasks["auto"].op = NONE
    /\ driveData.exists
    /\ driveData.content = <<>>
    /\ ruleFiles # <<>>

-----------------------------------------------------------------------------
(* C26 *)

\* C26: a call of saveFiles or loadFiles made while accessToken is null fails
\* with the Not connected error and issues no Drive request, and every Drive
\* request is issued after a token callback has delivered an access token.
C26_NoTokenNoRequest ==
    [][/\ calls' # calls =>
              LET call == calls'[Len(calls')]
              IN  call.token = NULL =>
                      /\ call.thrown = NOT_CONNECTED
                      /\ requests' = requests
       /\ requests' # requests => delivered'
      ]_<<calls, requests>>

\* One call was refused for want of a token, a later one was let through
\* with a token and has issued a request.
C26_Witness ==
    /\ \E i, j \in DOMAIN calls :
           /\ i < j
           /\ calls[i].token = NULL
           /\ calls[i].thrown = NOT_CONNECTED
           /\ calls[j].token # NULL
           /\ calls[j].thrown = NONE
    /\ requests # <<>>
    /\ delivered

====
